---------------------------- MODULE Spec2Model ----------------------------
(* Dolev-Yao model of the request/response protocol of                    *)
(* examples/dolevyao_rpc.c: the item algebra, the principal registry,     *)
(* the world gate "mypub", the client and server roles and the attacker.  *)
(* The fixpoints bad and shared_with are environment facts fixed by Init; *)
(* the event predicates request and response are the ledger the           *)
(* application writes when it drives the client and the server.           *)
EXTENDS Integers, FiniteSets, Sequences, Bags, TLC

\* ------------------------------------------------------------------ bounds
MaxPrincipals == 2
MaxKeys == 1
MaxData == 2
MaxResponses == 2

PrincipalIds == 0 .. (MaxPrincipals - 1)
KeyIds == 0 .. (MaxKeys - 1)
DataVals == 0 .. MaxData
\* shared_with returns a principal, or -1 when the key was not shared; the
\* last principal id is one the registry of this run never issues
Partners == -1 .. MaxPrincipals

VARIABLES
    badPrincipals,   \* fixpoint bad: the principals p with bad(p)
    sharedWith,      \* fixpoint shared_with, as a function of <<cl, id>>
    requests,        \* event predicate request: the triples that hold
    responses,       \* event predicate response: the 4-tuples that hold
    principals,      \* predicate principals(count)
    principal,       \* predicate principal(id, keyCount), id |-> keyCount
    issuedIds,       \* bag of the ids create_principal has issued
    issuedKeys,      \* bag of the key items create_key has returned
    cl,              \* the client call in progress
    sv,              \* the server process
    att,             \* the attacker process
    call             \* the last call of an API wrapper function made
                     \* outside the three roles

vars == <<badPrincipals, sharedWith, requests, responses, principals,
          principal, issuedIds, issuedKeys, cl, sv, att, call>>

\* ------------------------------------------------------------------- items
key_item(creator, id) == [tag |-> "key", creator |-> creator, id |-> id]
data_item(id) == [tag |-> "data", id |-> id]
hmacsha1_item(keyCreator, id, payload) ==
    [tag |-> "hmac", keyCreator |-> keyCreator, id |-> id, payload |-> payload]
pair_item(first, second) == [tag |-> "pair", first |-> first, second |-> second]

\* ------------------------------------------------------- environment facts
bad(p) == p \in badPrincipals
shared_with(c, id) == sharedWith[<<c, id>>]
request(c, s, req) == <<c, s, req>> \in requests
response(c, s, req, resp) == <<c, s, req, resp>> \in responses

\* mypub with a pair public as soon as one of its components is
RECURSIVE mypub_anypair(_)
mypub_anypair(i) ==
    CASE i.tag = "key" -> bad(i.creator) \/ bad(shared_with(i.creator, i.id))
      [] i.tag = "data" -> TRUE
      [] i.tag = "hmac" ->
            \/ bad(i.keyCreator)
            \/ bad(shared_with(i.keyCreator, i.id))
            \/ LET m == i.payload IN
               IF m.tag = "pair"
               THEN LET f == m.first
                        s == m.second
                    IN IF f.tag = "data"
                       THEN IF f.id = 0
                            THEN request(i.keyCreator,
                                         shared_with(i.keyCreator, i.id), s)
                            ELSE IF f.id = 1
                            THEN IF s.tag = "pair"
                                 THEN response(i.keyCreator,
                                               shared_with(i.keyCreator, i.id),
                                               s.first, s.second)
                                 ELSE FALSE
                            ELSE FALSE
                       ELSE FALSE
               ELSE FALSE
      [] i.tag = "pair" -> mypub_anypair(i.first) \/ mypub_anypair(i.second)

\* mypub with the default of the switch on the tag item returning true
RECURSIVE mypub_anytag(_)
mypub_anytag(i) ==
    CASE i.tag = "key" -> bad(i.creator) \/ bad(shared_with(i.creator, i.id))
      [] i.tag = "data" -> TRUE
      [] i.tag = "hmac" ->
            \/ bad(i.keyCreator)
            \/ bad(shared_with(i.keyCreator, i.id))
            \/ LET m == i.payload IN
               IF m.tag = "pair"
               THEN LET f == m.first
                        s == m.second
                    IN IF f.tag = "data"
                       THEN IF f.id = 0
                            THEN request(i.keyCreator,
                                         shared_with(i.keyCreator, i.id), s)
                            ELSE IF f.id = 1
                            THEN IF s.tag = "pair"
                                 THEN response(i.keyCreator,
                                               shared_with(i.keyCreator, i.id),
                                               s.first, s.second)
                                 ELSE FALSE
                            ELSE FALSE
                       ELSE TRUE
               ELSE FALSE
      [] i.tag = "pair" -> mypub_anytag(i.first) /\ mypub_anytag(i.second)

\* mypub with a pair public as soon as its first component is
RECURSIVE mypub_pairfirst(_)
mypub_pairfirst(i) ==
    CASE i.tag = "key" -> bad(i.creator) \/ bad(shared_with(i.creator, i.id))
      [] i.tag = "data" -> TRUE
      [] i.tag = "hmac" ->
            \/ bad(i.keyCreator)
            \/ bad(shared_with(i.keyCreator, i.id))
            \/ LET m == i.payload IN
               IF m.tag = "pair"
               THEN LET f == m.first
                        s == m.second
                    IN IF f.tag = "data"
                       THEN IF f.id = 0
                            THEN request(i.keyCreator,
                                         shared_with(i.keyCreator, i.id), s)
                            ELSE IF f.id = 1
                            THEN IF s.tag = "pair"
                                 THEN response(i.keyCreator,
                                               shared_with(i.keyCreator, i.id),
                                               s.first, s.second)
                                 ELSE FALSE
                            ELSE FALSE
                       ELSE FALSE
               ELSE FALSE
      [] i.tag = "pair" -> mypub_pairfirst(i.first)

\* mypub with every key public
RECURSIVE mypub_anykey(_)
mypub_anykey(i) ==
    CASE i.tag = "key" -> TRUE
      [] i.tag = "data" -> TRUE
      [] i.tag = "hmac" ->
            \/ bad(i.keyCreator)
            \/ bad(shared_with(i.keyCreator, i.id))
            \/ LET m == i.payload IN
               IF m.tag = "pair"
               THEN LET f == m.first
                        s == m.second
                    IN IF f.tag = "data"
                       THEN IF f.id = 0
                            THEN request(i.keyCreator,
                                         shared_with(i.keyCreator, i.id), s)
                            ELSE IF f.id = 1
                            THEN IF s.tag = "pair"
                                 THEN response(i.keyCreator,
                                               shared_with(i.keyCreator, i.id),
                                               s.first, s.second)
                                 ELSE FALSE
                            ELSE FALSE
                       ELSE FALSE
               ELSE FALSE
      [] i.tag = "pair" -> mypub_anykey(i.first) /\ mypub_anykey(i.second)

\* fixpoint bool mypub(item i)
RECURSIVE mypub(_)
mypub(i) ==
    CASE i.tag = "key" -> bad(i.creator) \/ bad(shared_with(i.creator, i.id))
      [] i.tag = "data" -> TRUE
      [] i.tag = "hmac" ->
            \/ bad(i.keyCreator)
            \/ bad(shared_with(i.keyCreator, i.id))
            \/ LET m == i.payload IN
               IF m.tag = "pair"
               THEN LET f == m.first
                        s == m.second
                    IN IF f.tag = "data"
                       THEN IF f.id = 0
                            THEN request(i.keyCreator,
                                         shared_with(i.keyCreator, i.id), s)
                            ELSE IF f.id = 1
                            THEN IF s.tag = "pair"
                                 THEN response(i.keyCreator,
                                               shared_with(i.keyCreator, i.id),
                                               s.first, s.second)
                                 ELSE FALSE
                            ELSE FALSE
                       ELSE FALSE
               ELSE FALSE
      [] i.tag = "pair" -> mypub(i.first) /\ mypub(i.second)


\* ------------------------------------------------- API wrapper functions
\* the outcome of a wrapper that aborts
Abort == [tag |-> "abort"]
\* a null item pointer
NoItem == [tag |-> "none"]

create_data_item(data) == data_item(data)
create_pair(first, second) == pair_item(first, second)
\* check_is_key aborts if the item is not a key
check_is_key(item) == IF item.tag = "key" THEN item ELSE Abort
\* item_get_data aborts if the item is not a data item
item_get_data(item) == IF item.tag = "data" THEN item.id ELSE Abort
hmacsha1(key, payload) == hmacsha1_item(key.creator, key.id, payload)
pair_get_first(pair) == IF pair.tag = "pair" THEN pair.first ELSE Abort
\* pair_get_second returning the first component
pair_get_second_first(pair) == IF pair.tag = "pair" THEN pair.first ELSE Abort
pair_get_second(pair) == IF pair.tag = "pair" THEN pair.second ELSE Abort
\* hmacsha1_verify comparing the key creator and the payload only
hmacsha1_verify_anyid(hash, key, payload) ==
    /\ hash.tag = "hmac"
    /\ hash.keyCreator = key.creator
    /\ hash.payload = payload

\* hmacsha1_verify returns only if h == hmacsha1_item(creator, id, p)
hmacsha1_verify(hash, key, payload) ==
    hash = hmacsha1_item(key.creator, key.id, payload)
item_equals(item1, item2) == item1 = item2

\* --------------------------------------- the items net_receive may yield
\* The world is a predicate, not a store: net_receive yields any item that
\* satisfies mypub. The items below are the ones the model lets it yield:
\* the atoms, every well-formed message under every key, and the ways a
\* message can be ill-formed: no hmac, an hmac of another payload or under
\* the next key of the creator, a payload that is not a pair.
Keys == {key_item(c, k) : c \in PrincipalIds, k \in KeyIds}
Datas == {data_item(d) : d \in DataVals}
\* the items the application passes as a request or computes as a response
AppItems == {data_item(42), key_item(0, 0)}
Atoms == Keys \cup Datas \cup AppItems
Tags == Datas \cup {key_item(0, 0)}
\* a tag and a request; tag 1 and a pair of a request and a response
Payloads ==
    {pair_item(f, s) : f \in Tags, s \in AppItems}
    \cup {pair_item(data_item(1), pair_item(a, b)) :
            a \in AppItems, b \in AppItems}
Hashes == {hmacsha1_item(k.creator, k.id, p) : k \in Keys, p \in Payloads}
Messages == {pair_item(hmacsha1_item(k.creator, k.id, p), p) :
                k \in Keys, p \in Payloads}
Malformed ==
    {pair_item(a, p) : a \in AppItems, p \in Payloads}
    \cup {pair_item(hmacsha1_item(k.creator, k.id, a), a) :
            k \in Keys, a \in AppItems}
    \cup {pair_item(hmacsha1_item(k.creator, k.id,
                                  pair_item(data_item(0), a)),
                    pair_item(data_item(1), pair_item(a, b))) :
            k \in Keys, a \in AppItems, b \in AppItems}
    \cup {pair_item(hmacsha1_item(k.creator, k.id + 1, p), p) :
            k \in Keys, p \in Payloads}
SmallItems == Atoms \cup Payloads
World == SmallItems \cup Hashes \cup Messages \cup Malformed

\* net_receive ensures pub(d) == true: any item of the world gate
net_receive(candidates) == {d \in candidates : mypub(d)}
\* net_send requires pub(d) == true
net_send(d) == mypub(d)

\* ------------------------------------------------------ the environment
\* shared_with is fixed before the run: a principal shares its keys of even
\* id with the next principal and its keys of odd id with nobody; it is
\* defined for the keys a principal has yet to create as well
SharedWithChoices ==
    { [x \in PrincipalIds \X (0 .. MaxKeys) |->
          IF x[2] % 2 = 0 THEN x[1] + 1 ELSE -1] }

Init ==
    /\ badPrincipals \in SUBSET (0 .. MaxPrincipals)
    /\ sharedWith \in SharedWithChoices
    /\ requests = {}
    /\ responses = {}
    /\ principals = 0
    /\ principal = << >>
    /\ issuedIds = EmptyBag
    /\ issuedKeys = EmptyBag
    /\ cl = [pc |-> "Idle", server |-> -1, key |-> NoItem, request |-> NoItem,
             result |-> NoItem, err |-> ""]
    /\ sv = [pc |-> "Idle", serverId |-> -1, key |-> NoItem,
             request |-> NoItem, err |-> ""]
    /\ att = [pc |-> "Init", me |-> -1, item |-> NoItem, err |-> ""]
    /\ call = [op |-> "none", args |-> << >>, result |-> NoItem,
               after |-> << >>]

\* ------------------------------------------------- the principal registry
Created == 0 .. (principals - 1)

\* create_principal issuing the id below the count when there is one
create_principal_reissue ==
    LET id == IF principals > 0 THEN principals - 1 ELSE 0 IN
    /\ principals' = principals + 1
    /\ principal' = [p \in 0 .. principals |->
                        IF p = principals \/ p = id THEN 0 ELSE principal[p]]
    /\ issuedIds' = issuedIds (+) SetToBag({id})

\* lemma create_principal: principals(count) becomes principals(count + 1)
\* and principal(count, 0)
create_principal ==
    /\ principals' = principals + 1
    /\ principal' = [p \in 0 .. principals |->
                        IF p = principals THEN 0 ELSE principal[p]]
    /\ issuedIds' = issuedIds (+) SetToBag({principals})

\* create_key leaving the key count as it was
create_key_nocount(p) ==
    /\ principal' = principal
    /\ issuedKeys' = issuedKeys (+) SetToBag({key_item(p, principal[p])})

\* create_key: principal(p, keyCount) becomes principal(p, keyCount + 1);
\* the result is key_item(p, keyCount)
create_key(p) ==
    /\ principal' = [principal EXCEPT ![p] = principal[p] + 1]
    /\ issuedKeys' = issuedKeys (+) SetToBag({key_item(p, principal[p])})

\* the keys that create_key has returned
OwnedKeys == {k \in Keys : k.creator \in Created /\ k.id < principal[k.creator]}

\* ---------------------------------------------------------- application
\* the application sets up a principal for a client or a server
AppCreatePrincipal ==
    /\ principals < MaxPrincipals
    /\ create_principal
    /\ UNCHANGED <<call, badPrincipals, sharedWith, requests, responses,
                   issuedKeys, cl, sv, att>>

\* a principal other than the attacker's generates a key
AppCreateKey(p) ==
    /\ p \in Created
    /\ p # att.me
    /\ principal[p] < MaxKeys
    /\ create_key(p)
    /\ UNCHANGED <<call, badPrincipals, sharedWith, requests, responses,
                   principals, issuedIds, cl, sv, att>>

\* RecordRequest forgetting the events recorded before
RecordRequest_overwrite(key, req) ==
    /\ cl.pc = "Idle"
    /\ key \in OwnedKeys
    /\ key.creator # att.me
    /\ cl.key \in {NoItem, key}
    /\ requests' = {<<key.creator, shared_with(key.creator, key.id), req>>}
    /\ cl' = [cl EXCEPT !.key = key]
    /\ UNCHANGED <<call, badPrincipals, sharedWith, responses, principals,
                   principal, issuedIds, issuedKeys, sv, att>>

\* the client application, which holds one key, records the event
\* request(c, s, req) before it calls client
RecordRequest(key, req) ==
    /\ cl.pc = "Idle"
    /\ key \in OwnedKeys
    /\ key.creator # att.me
    /\ cl.key \in {NoItem, key}
    /\ requests' = requests \cup
                     {<<key.creator, shared_with(key.creator, key.id), req>>}
    /\ cl' = [cl EXCEPT !.key = key]
    /\ UNCHANGED <<call, badPrincipals, sharedWith, responses, principals,
                   principal, issuedIds, issuedKeys, sv, att>>

\* --------------------------------------------------------------- client
\* the precondition of client(server, key, request)
client_requires(server, key, req) ==
    /\ key \in OwnedKeys
    /\ mypub(req)
    /\ request(key.creator, server, req)
    /\ shared_with(key.creator, key.id) = server

\* client_message with the response tag in place of the request tag
client_message_tag1(key, req) ==
    LET tag == create_data_item(1)
        payload == create_pair(tag, req)
        hash == hmacsha1(key, payload)
    IN create_pair(hash, payload)

\* first block of client: the message it passes to net_send
client_message(key, req) ==
    LET tag == create_data_item(0)
        payload == create_pair(tag, req)
        hash == hmacsha1(key, payload)
    IN create_pair(hash, payload)

\* client_response without the comparison of the echoed request
client_response_noecho(key, req, r) ==
    LET hash == pair_get_first(r)
        payload == pair_get_second(r)
    IN IF hash = Abort \/ payload = Abort THEN Abort
       ELSE IF ~hmacsha1_verify(hash, key, payload) THEN Abort
       ELSE LET tag == pair_get_first(payload) IN
            IF tag = Abort THEN Abort
            ELSE IF tag.tag # "data" THEN item_get_data(tag)
            ELSE LET tagValue == item_get_data(tag) IN
                 IF tagValue # 1 THEN Abort
                 ELSE LET reqresp == pair_get_second(payload)
                          request1 == pair_get_first(reqresp)
                          response1 == pair_get_second(reqresp)
                      IN IF request1 = Abort \/ response1 = Abort THEN Abort
                         ELSE response1

\* client_response without hmacsha1_verify
client_response_noverify(key, req, r) ==
    LET hash == pair_get_first(r)
        payload == pair_get_second(r)
    IN IF hash = Abort \/ payload = Abort THEN Abort
       ELSE LET tag == pair_get_first(payload) IN
            IF tag = Abort THEN Abort
            ELSE IF tag.tag # "data" THEN item_get_data(tag)
            ELSE LET tagValue == item_get_data(tag) IN
                 IF tagValue # 1 THEN Abort
                 ELSE LET reqresp == pair_get_second(payload)
                          request1 == pair_get_first(reqresp)
                          response1 == pair_get_second(reqresp)
                      IN IF request1 = Abort \/ response1 = Abort THEN Abort
                         ELSE IF ~item_equals(req, request1) THEN Abort
                         ELSE response1

\* second block of client on the received item r: the response it returns,
\* or Abort
client_response(key, req, r) ==
    LET hash == pair_get_first(r)
        payload == pair_get_second(r)
    IN IF hash = Abort \/ payload = Abort THEN Abort
       ELSE IF ~hmacsha1_verify(hash, key, payload) THEN Abort
       ELSE LET tag == pair_get_first(payload) IN
            IF tag = Abort THEN Abort
            ELSE IF tag.tag # "data" THEN item_get_data(tag)
            ELSE LET tagValue == item_get_data(tag) IN
                 IF tagValue # 1 THEN Abort
                 ELSE LET reqresp == pair_get_second(payload)
                          request1 == pair_get_first(reqresp)
                          response1 == pair_get_second(reqresp)
                      IN IF request1 = Abort \/ response1 = Abort THEN Abort
                         ELSE IF ~item_equals(req, request1) THEN Abort
                         ELSE response1

\* the application calls client; client builds and sends its message
ClientSend(key, req) ==
    /\ cl.pc = "Idle"
    /\ key.creator # att.me
    /\ cl.key \in {NoItem, key}
    /\ client_requires(shared_with(key.creator, key.id), key, req)
    /\ cl' = IF net_send(client_message(key, req))
             THEN [cl EXCEPT !.pc = "Sent",
                             !.server = shared_with(key.creator, key.id),
                             !.key = key, !.request = req,
                             !.result = NoItem, !.err = ""]
             ELSE [cl EXCEPT !.pc = "Aborted",
                             !.server = shared_with(key.creator, key.id),
                             !.key = key, !.request = req,
                             !.result = NoItem, !.err = "NotPublic"]
    /\ UNCHANGED <<call, badPrincipals, sharedWith, requests, responses,
                   principals, principal, issuedIds, issuedKeys, sv, att>>

\* client enters its second block and calls net_receive
ClientAwait ==
    /\ cl.pc = "Sent"
    /\ cl' = [cl EXCEPT !.pc = "AwaitingResponse"]
    /\ UNCHANGED <<call, badPrincipals, sharedWith, requests, responses,
                   principals, principal, issuedIds, issuedKeys, sv, att>>

\* ClientReceive with abort taking the server down with the client
ClientReceive_global ==
    /\ cl.pc = "AwaitingResponse"
    /\ \E resp \in {client_response(cl.key, cl.request, r) :
                          r \in net_receive(World)} :
          /\ cl' = IF resp = Abort
                   THEN [cl EXCEPT !.pc = "Aborted", !.err = "Abort"]
                   ELSE [cl EXCEPT !.pc = "Done", !.result = resp]
          /\ sv' = IF resp = Abort /\ sv.pc # "Idle"
                   THEN [sv EXCEPT !.pc = "Aborted", !.err = "Abort"]
                   ELSE sv
    /\ UNCHANGED <<call, badPrincipals, sharedWith, requests, responses,
                   principals, principal, issuedIds, issuedKeys, att>>

\* ClientReceive calling net_receive again after a failed check
ClientReceive_retry ==
    /\ cl.pc = "AwaitingResponse"
    /\ \E resp \in {client_response(cl.key, cl.request, r) :
                          r \in net_receive(World)} :
          cl' = IF resp = Abort
                THEN [cl EXCEPT !.err = "Abort"]
                ELSE [cl EXCEPT !.pc = "Done", !.result = resp]
    /\ UNCHANGED <<call, badPrincipals, sharedWith, requests, responses,
                   principals, principal, issuedIds, issuedKeys, sv, att>>

\* ClientReceive refusing a response the application already holds from an
\* earlier call
ClientReceive_fresh ==
    /\ cl.pc = "AwaitingResponse"
    /\ \E resp \in {client_response(cl.key, cl.request, r) :
                          r \in net_receive(World)} :
          cl' = IF resp = Abort \/ ("previous" \in DOMAIN cl /\ resp = cl.previous)
                THEN [cl EXCEPT !.pc = "Aborted", !.err = "Abort"]
                ELSE [cl EXCEPT !.pc = "Done", !.result = resp]
    /\ UNCHANGED <<call, badPrincipals, sharedWith, requests, responses,
                   principals, principal, issuedIds, issuedKeys, sv, att>>

\* net_receive yields r; client checks it and returns the response or aborts
ClientReceive ==
    /\ cl.pc = "AwaitingResponse"
    /\ \E resp \in {client_response(cl.key, cl.request, r) :
                          r \in net_receive(World)} :
          cl' = IF resp = Abort
                THEN [cl EXCEPT !.pc = "Aborted", !.err = "Abort"]
                ELSE [cl EXCEPT !.pc = "Done", !.result = resp]
    /\ UNCHANGED <<call, badPrincipals, sharedWith, requests, responses,
                   principals, principal, issuedIds, issuedKeys, sv, att>>

\* the call is over and has returned an item; the application keeps the
\* item it was handed and may call client again
ClientReturnKept ==
    /\ cl.pc = "Done"
    /\ cl' = [pc |-> "Idle", server |-> cl.server, key |-> cl.key,
              request |-> NoItem, result |-> NoItem, err |-> "",
              previous |-> cl.result]
    /\ UNCHANGED <<call, badPrincipals, sharedWith, requests, responses,
                   principals, principal, issuedIds, issuedKeys, sv, att>>

\* the call is over; the application may call client again
ClientReturn ==
    /\ cl.pc \in {"Done", "Aborted"}
    /\ cl' = [cl EXCEPT !.pc = "Idle", !.request = NoItem,
                         !.result = NoItem, !.err = ""]
    /\ UNCHANGED <<call, badPrincipals, sharedWith, requests, responses,
                   principals, principal, issuedIds, issuedKeys, sv, att>>

\* --------------------------------------------------------------- server
\* server_request without hmacsha1_verify
server_request_noverify(key, r) ==
    LET hash == pair_get_first(r)
        payload == pair_get_second(r)
    IN IF hash = Abort \/ payload = Abort THEN Abort
       ELSE LET tag == pair_get_first(payload) IN
            IF tag = Abort THEN Abort
            ELSE IF tag.tag # "data" THEN item_get_data(tag)
            ELSE LET tagValue == item_get_data(tag) IN
                 IF tagValue # 0 THEN Abort
                 ELSE pair_get_second(payload)

\* server_request accepting the response tag in place of the request tag
server_request_tag1(key, r) ==
    LET hash == pair_get_first(r)
        payload == pair_get_second(r)
    IN IF hash = Abort \/ payload = Abort THEN Abort
       ELSE IF ~hmacsha1_verify(hash, key, payload) THEN Abort
       ELSE LET tag == pair_get_first(payload) IN
            IF tag = Abort THEN Abort
            ELSE IF tag.tag # "data" THEN item_get_data(tag)
            ELSE LET tagValue == item_get_data(tag) IN
                 IF tagValue # 1 THEN Abort
                 ELSE pair_get_second(payload)

\* first block of a server iteration on the received item r: the request
\* it passes to compute_response, or Abort
server_request(key, r) ==
    LET hash == pair_get_first(r)
        payload == pair_get_second(r)
    IN IF hash = Abort \/ payload = Abort THEN Abort
       ELSE IF ~hmacsha1_verify(hash, key, payload) THEN Abort
       ELSE LET tag == pair_get_first(payload) IN
            IF tag = Abort THEN Abort
            ELSE IF tag.tag # "data" THEN item_get_data(tag)
            ELSE LET tagValue == item_get_data(tag) IN
                 IF tagValue # 0 THEN Abort
                 ELSE pair_get_second(payload)

\* server_message with the request tag in place of the response tag
server_message_tag0(key, req, resp) ==
    LET reqresp == create_pair(req, resp)
        tag == create_data_item(0)
        payload == create_pair(tag, reqresp)
        hash == hmacsha1(key, payload)
    IN create_pair(hash, payload)

\* server_message with the hmac taken of the request and response alone
server_message_hashbody(key, req, resp) ==
    LET reqresp == create_pair(req, resp)
        tag == create_data_item(1)
        payload == create_pair(tag, reqresp)
        hash == hmacsha1(key, reqresp)
    IN create_pair(hash, payload)

\* second block of a server iteration: the message it passes to net_send
server_message(key, req, resp) ==
    LET reqresp == create_pair(req, resp)
        tag == create_data_item(1)
        payload == create_pair(tag, reqresp)
        hash == hmacsha1(key, payload)
    IN create_pair(hash, payload)

\* the items compute_response may return: mypub(resp) == true
compute_response_results == {resp \in AppItems : mypub(resp)}

\* the precondition of compute_response(request)
compute_response_requires(key, req) ==
    \/ bad(key.creator)
    \/ bad(shared_with(key.creator, key.id))
    \/ request(key.creator, shared_with(key.creator, key.id), req)

\* the precondition of server(serverId, key)
server_requires(serverId, key) ==
    /\ key \in OwnedKeys
    /\ shared_with(key.creator, key.id) = serverId

ServerStart(serverId, key) ==
    /\ sv.pc = "Idle"
    /\ key.creator # att.me
    /\ server_requires(serverId, key)
    /\ sv' = [sv EXCEPT !.pc = "Loop", !.serverId = serverId, !.key = key]
    /\ UNCHANGED <<call, badPrincipals, sharedWith, requests, responses,
                   principals, principal, issuedIds, issuedKeys, cl, att>>

\* server called with a serverId that the caller has not checked against
\* shared_with: the body of server never reads serverId, and the
\* precondition is not evaluated when the program runs
ServerStartAny(serverId, key) ==
    /\ sv.pc = "Idle"
    /\ key \in OwnedKeys
    /\ sv' = [sv EXCEPT !.pc = "Loop", !.serverId = serverId, !.key = key]
    /\ UNCHANGED <<call, badPrincipals, sharedWith, requests, responses,
                   principals, principal, issuedIds, issuedKeys, cl, att>>

\* ServerReceive checking serverId against shared_with before it receives
ServerReceive_checkid ==
    /\ sv.pc = "Loop"
    /\ \E req \in {server_request(sv.key, r) : r \in net_receive(World)} :
          sv' = IF req = Abort
                   \/ shared_with(sv.key.creator, sv.key.id) # sv.serverId
                THEN [sv EXCEPT !.pc = "Aborted", !.err = "Abort",
                                !.request = NoItem]
                ELSE [sv EXCEPT !.pc = "Compute", !.request = req]
    /\ UNCHANGED <<call, badPrincipals, sharedWith, requests, responses,
                   principals, principal, issuedIds, issuedKeys, cl, att>>

\* ServerReceive refusing a request the server has answered before
ServerReceive_once ==
    /\ sv.pc = "Loop"
    /\ \E req \in {server_request(sv.key, r) : r \in net_receive(World)} :
          sv' = IF req = Abort \/ (\E e \in responses :
                                      e[1] = sv.key.creator /\ e[3] = req)
                THEN [sv EXCEPT !.pc = "Aborted", !.err = "Abort",
                                !.request = NoItem]
                ELSE [sv EXCEPT !.pc = "Compute", !.request = req]
    /\ UNCHANGED <<call, badPrincipals, sharedWith, requests, responses,
                   principals, principal, issuedIds, issuedKeys, cl, att>>

\* ServerReceive noting the failed check and going on to the next iteration
ServerReceive_continue ==
    /\ sv.pc = "Loop"
    /\ \E req \in {server_request(sv.key, r) : r \in net_receive(World)} :
          sv' = IF req = Abort
                THEN [sv EXCEPT !.err = "Abort", !.request = NoItem]
                ELSE [sv EXCEPT !.pc = "Compute", !.request = req]
    /\ UNCHANGED <<call, badPrincipals, sharedWith, requests, responses,
                   principals, principal, issuedIds, issuedKeys, cl, att>>

\* net_receive yields r; the server checks it and extracts the request
ServerReceive ==
    /\ sv.pc = "Loop"
    /\ \E req \in {server_request(sv.key, r) : r \in net_receive(World)} :
          sv' = IF req = Abort
                THEN [sv EXCEPT !.pc = "Aborted", !.err = "Abort",
                                !.request = NoItem]
                ELSE [sv EXCEPT !.pc = "Compute", !.request = req]
    /\ UNCHANGED <<call, badPrincipals, sharedWith, requests, responses,
                   principals, principal, issuedIds, issuedKeys, cl, att>>

\* second block of a server iteration: compute_response returns resp with
\* mypub(resp) == true and response(creator, shared_with(creator, id), req,
\* resp) == true; the server builds its reply, sends it, and loops
ServerRespond ==
    /\ sv.pc = "Compute"
    /\ UNCHANGED <<call, badPrincipals, sharedWith, requests, principals,
                   principal, issuedIds, issuedKeys, cl, att>>
    /\ \E resp \in compute_response_results :
          /\ responses' = responses \cup
                {<<sv.key.creator, shared_with(sv.key.creator, sv.key.id),
                   sv.request, resp>>}
          /\ Cardinality(responses') <= MaxResponses
          /\ \E m \in {server_message(sv.key, sv.request, resp)} :
                sv' = IF net_send(m)'
                      THEN [sv EXCEPT !.pc = "Loop", !.request = NoItem]
                      ELSE [sv EXCEPT !.pc = "Aborted", !.err = "NotPublic"]

\* ------------------------------------------------------------- attacker
\* AttackerStart with the inner loop left by break: the outer loop body
\* runs again and creates another persona
AttackerStart_again ==
    /\ att.pc \in {"Init", "Loop"}
    /\ principals < MaxPrincipals
    /\ create_principal
    /\ att' = [att EXCEPT !.pc = "Loop", !.me = principals]
    /\ UNCHANGED <<call, badPrincipals, sharedWith, requests, responses,
                   issuedKeys, cl, sv>>

\* attacker requires principals(0); the outer loop creates the persona
AttackerStart ==
    /\ att.pc = "Init"
    /\ principals = 0
    /\ create_principal
    /\ att' = [att EXCEPT !.pc = "Loop", !.me = principals]
    /\ UNCHANGED <<call, badPrincipals, sharedWith, requests, responses,
                   issuedKeys, cl, sv>>

\* case 0: create_key
AttackerCreateKey ==
    /\ att.pc = "Loop"
    /\ principal[att.me] < MaxKeys
    /\ create_key(att.me)
    /\ att' = [att EXCEPT !.pc = "Assume",
                          !.item = key_item(att.me, principal[att.me])]
    /\ UNCHANGED <<call, badPrincipals, sharedWith, requests, responses,
                   principals, issuedIds, cl, sv>>

\* AttackerLeakKey without the assume
AttackerLeakKey_noassume ==
    /\ att.pc = "Assume"
    /\ att' = IF net_send(att.item)
              THEN [att EXCEPT !.pc = "Loop", !.item = NoItem]
              ELSE [att EXCEPT !.pc = "Aborted", !.err = "NotPublic"]
    /\ UNCHANGED <<call, badPrincipals, sharedWith, requests, responses,
                   principals, principal, issuedIds, issuedKeys, cl, sv>>

\* case 0: assume(bad(creator) || bad(shared_with(creator, id))), net_send.
\* The assume is the enabling condition of the step: an execution in which
\* it is false goes no further.
AttackerLeakKey ==
    /\ att.pc = "Assume"
    /\ bad(att.item.creator) \/ bad(shared_with(att.item.creator, att.item.id))
    /\ att' = IF net_send(att.item)
              THEN [att EXCEPT !.pc = "Loop", !.item = NoItem]
              ELSE [att EXCEPT !.pc = "Aborted", !.err = "NotPublic"]
    /\ UNCHANGED <<call, badPrincipals, sharedWith, requests, responses,
                   principals, principal, issuedIds, issuedKeys, cl, sv>>

\* AttackerData also recording a request event of its persona
AttackerData_records ==
    /\ att.pc = "Loop"
    /\ \E data \in DataVals :
          requests' = requests \cup
             {<<att.me, shared_with(att.me, 0), create_data_item(data)>>}
    /\ UNCHANGED <<call, badPrincipals, sharedWith, responses, principals,
                   principal, issuedIds, issuedKeys, cl, sv, att>>

\* case 1: publish an arbitrary data item
AttackerData ==
    /\ att.pc = "Loop"
    /\ \E sent \in {net_send(create_data_item(data)) : data \in DataVals} :
          att' = IF sent
                 THEN att
                 ELSE [att EXCEPT !.pc = "Aborted", !.err = "NotPublic"]
    /\ UNCHANGED <<call, badPrincipals, sharedWith, requests, responses,
                   principals, principal, issuedIds, issuedKeys, cl, sv>>

\* case 2: pair two received items
AttackerPair ==
    /\ att.pc = "Loop"
    /\ \E sent \in {net_send(create_pair(first, second)) :
                          first \in net_receive(SmallItems),
                          second \in net_receive(SmallItems)} :
          att' = IF sent
                 THEN att
                 ELSE [att EXCEPT !.pc = "Aborted", !.err = "NotPublic"]
    /\ UNCHANGED <<call, badPrincipals, sharedWith, requests, responses,
                   principals, principal, issuedIds, issuedKeys, cl, sv>>

\* case 3: hash a received payload with a received key; check_is_key aborts
\* if the first received item is not a key
AttackerHash ==
    /\ att.pc = "Loop"
    /\ \E out \in {IF check_is_key(key) = Abort THEN "Abort"
                       ELSE IF net_send(hmacsha1(key, payload)) THEN ""
                       ELSE "NotPublic" :
                          key \in net_receive(Atoms),
                          payload \in net_receive(SmallItems)} :
          att' = IF out = ""
                 THEN att
                 ELSE [att EXCEPT !.pc = "Aborted", !.err = out]
    /\ UNCHANGED <<call, badPrincipals, sharedWith, requests, responses,
                   principals, principal, issuedIds, issuedKeys, cl, sv>>

\* case 4: split a received pair and send both components; pair_get_first
\* aborts if the received item is not a pair
AttackerSplit ==
    /\ att.pc = "Loop"
    /\ \E out \in {LET first == pair_get_first(pair)
                           second == pair_get_second(pair)
                       IN IF first = Abort \/ second = Abort THEN "Abort"
                          ELSE IF net_send(first) /\ net_send(second) THEN ""
                          ELSE "NotPublic" :
                          pair \in net_receive(World)} :
          att' = IF out = ""
                 THEN att
                 ELSE [att EXCEPT !.pc = "Aborted", !.err = out]
    /\ UNCHANGED <<call, badPrincipals, sharedWith, requests, responses,
                   principals, principal, issuedIds, issuedKeys, cl, sv>>

\* ------------------------------------------- calls of the API wrappers
\* the items handed to a wrapper called on its own: keys, also of the next
\* id of each creator, data items, an hmac under each key and pairs
LibKeys == {key_item(c, k) : c \in PrincipalIds, k \in 0 .. MaxKeys}
LibPayloads ==
    Datas \cup {key_item(0, 0), pair_item(data_item(0), data_item(1))}
LibHashes ==
    {hmacsha1_item(k.creator, k.id, p) : k \in LibKeys, p \in LibPayloads}
LibItems ==
    LibKeys \cup LibPayloads \cup LibHashes
    \cup {pair_item(h, h.payload) : h \in LibHashes}

\* hmacsha1(key, payload): key and payload are kept, the result is the hmac
Call_hmacsha1(key, payload) ==
    /\ call' = [op |-> "hmacsha1", args |-> <<key, payload>>,
                result |-> hmacsha1(key, payload),
                after |-> <<key, payload>>]
    /\ UNCHANGED <<badPrincipals, sharedWith, requests, responses,
                   principals, principal, issuedIds, issuedKeys, cl, sv, att>>

\* hmacsha1_verify(hash, key, payload): returns, with the three items
\* kept, only if the hash is the hmac of the payload under the key
Call_hmacsha1_verify(hash, key, payload) ==
    /\ call' = IF hmacsha1_verify(hash, key, payload)
               THEN [op |-> "hmacsha1_verify", args |-> <<hash, key, payload>>,
                     result |-> "ok", after |-> <<hash, key, payload>>]
               ELSE [op |-> "hmacsha1_verify", args |-> <<hash, key, payload>>,
                     result |-> "abort", after |-> << >>]
    /\ UNCHANGED <<badPrincipals, sharedWith, requests, responses,
                   principals, principal, issuedIds, issuedKeys, cl, sv, att>>

ItemsNext ==
    \/ \E key \in LibKeys, payload \in LibPayloads :
          Call_hmacsha1(key, payload)
    \/ \E hash \in LibItems, key \in LibKeys, payload \in LibPayloads :
          Call_hmacsha1_verify(hash, key, payload)

\* the wrappers called on their own, on every item of LibItems
InitItems == Init /\ badPrincipals = {}

SpecItems == InitItems /\ [][ItemsNext]_vars

\* create_pair(first, second): both are kept, the result is the pair
Call_create_pair(first, second) ==
    /\ call' = [op |-> "create_pair", args |-> <<first, second>>,
                result |-> create_pair(first, second),
                after |-> <<first, second>>]
    /\ UNCHANGED <<badPrincipals, sharedWith, requests, responses,
                   principals, principal, issuedIds, issuedKeys, cl, sv, att>>

Call_create_data_item(data) ==
    /\ call' = [op |-> "create_data_item", args |-> <<data>>,
                result |-> create_data_item(data), after |-> << >>]
    /\ UNCHANGED <<badPrincipals, sharedWith, requests, responses,
                   principals, principal, issuedIds, issuedKeys, cl, sv, att>>

\* pair_get_first(pair): the pair is kept whatever it is; the call returns
\* only for a pair item
Call_pair_get_first(pair) ==
    /\ call' = [op |-> "pair_get_first", args |-> <<pair>>,
                result |-> pair_get_first(pair), after |-> <<pair>>]
    /\ UNCHANGED <<badPrincipals, sharedWith, requests, responses,
                   principals, principal, issuedIds, issuedKeys, cl, sv, att>>

Call_pair_get_second(pair) ==
    /\ call' = [op |-> "pair_get_second", args |-> <<pair>>,
                result |-> pair_get_second(pair), after |-> <<pair>>]
    /\ UNCHANGED <<badPrincipals, sharedWith, requests, responses,
                   principals, principal, issuedIds, issuedKeys, cl, sv, att>>

\* item_get_data(item): the item is kept if it is a data item; the call
\* returns only for a data item
Call_item_get_data(item) ==
    /\ call' = [op |-> "item_get_data", args |-> <<item>>,
                result |-> item_get_data(item),
                after |-> IF item.tag = "data" THEN <<item>> ELSE << >>]
    /\ UNCHANGED <<badPrincipals, sharedWith, requests, responses,
                   principals, principal, issuedIds, issuedKeys, cl, sv, att>>

\* check_is_key(item), also on the keys create_key has returned
Call_check_is_key(item) ==
    /\ call' = [op |-> "check_is_key", args |-> <<item>>,
                result |-> IF check_is_key(item) = Abort THEN "abort" ELSE "ok",
                after |-> IF item.tag = "key" THEN <<item>> ELSE << >>]
    /\ UNCHANGED <<badPrincipals, sharedWith, requests, responses,
                   principals, principal, issuedIds, issuedKeys, cl, sv, att>>

TermsNext ==
    \/ AppCreatePrincipal
    \/ \E p \in PrincipalIds : AppCreateKey(p)
    \/ \E first \in LibKeys \cup LibPayloads,
           second \in LibKeys \cup LibPayloads :
          Call_create_pair(first, second)
    \/ \E data \in DataVals : Call_create_data_item(data)
    \/ \E pair \in LibItems : Call_pair_get_first(pair)
    \/ \E pair \in LibItems : Call_pair_get_second(pair)
    \/ \E item \in LibItems : Call_item_get_data(item)
    \/ \E item \in LibItems \cup BagToSet(issuedKeys) :
          Call_check_is_key(item)

\* the constructors and accessors of items called on their own, with the
\* principal registry creating keys
SpecTerms == InitItems /\ [][TermsNext]_vars

\* ---------------------------------------------------------------- system
AppNext ==
    \/ AppCreatePrincipal
    \/ \E p \in PrincipalIds : AppCreateKey(p)
    \/ \E key \in Keys, req \in AppItems : RecordRequest(key, req)

ClientNext ==
    \/ \E key \in Keys, req \in AppItems : ClientSend(key, req)
    \/ ClientAwait
    \/ ClientReceive
    \/ ClientReturn

ServerNext ==
    \/ \E serverId \in Partners, key \in Keys : ServerStart(serverId, key)
    \/ ServerReceive
    \/ ServerRespond

AttackerNext ==
    \/ AttackerStart
    \/ AttackerCreateKey
    \/ AttackerLeakKey
    \/ AttackerData
    \/ AttackerPair
    \/ AttackerHash
    \/ AttackerSplit

Next == AppNext \/ ClientNext \/ ServerNext \/ AttackerNext

Spec == Init /\ [][Next]_vars

\* the attacker alone with the principal registry: no client or server role
\* steps and no application recording events
SpecAttacker ==
    Init /\ [][AttackerNext \/ AppCreatePrincipal
                 \/ \E p \in PrincipalIds : AppCreateKey(p)]_vars

\* the run of one call: principals 1 and 2 are not bad, the client holds
\* key_item(1, 0), shared with 2, and asks data_item(42); the server
\* receives once the client has sent and the client receives once the
\* server has replied. Every step is a step of Next.
ScenarioKey == key_item(1, 0)
ScenarioRequest == data_item(42)

InitScenario == Init /\ ~bad(1) /\ ~bad(2)

\* the server alone, started with key_item(1, 0) and any serverId, bad as
\* Init draws it, the client application recording its requests
ServerIdNext ==
    \/ AppCreatePrincipal
    \/ AppCreateKey(1)
    \/ \E req \in AppItems : RecordRequest(ScenarioKey, req)
    \/ \E serverId \in Partners : ServerStartAny(serverId, ScenarioKey)
    \/ ServerReceive
    \/ ServerRespond

SpecServerId == Init /\ [][ServerIdNext]_vars

ScenarioNext ==
    \/ AppCreatePrincipal
    \/ AppCreateKey(1)
    \/ RecordRequest(ScenarioKey, ScenarioRequest)
    \/ ClientSend(ScenarioKey, ScenarioRequest)
    \/ ClientAwait
    \/ ServerStart(2, ScenarioKey)
    \/ cl.pc \in {"Sent", "AwaitingResponse"} /\ ServerReceive
    \/ ServerRespond
    \/ responses # {} /\ ClientReceive
    \/ AttackerNext

SpecScenario == InitScenario /\ [][ScenarioNext]_vars

\* the scenario with repeated client calls: the application keeps what a
\* call returned and calls client again with the same key and request; the
\* server takes a request only while no response has been computed
ReplayNext ==
    \/ AppCreatePrincipal
    \/ AppCreateKey(1)
    \/ RecordRequest(ScenarioKey, ScenarioRequest)
    \/ ClientSend(ScenarioKey, ScenarioRequest)
    \/ ClientAwait
    \/ ClientReceive
    \/ ClientReturnKept
    \/ ClientReturn
    \/ ServerStart(2, ScenarioKey)
    \/ responses = {} /\ ServerReceive
    \/ ServerRespond
    \/ AttackerNext

SpecReplay == InitScenario /\ [][ReplayNext]_vars

\* ================================================================ claims
GoodClientCall == ~bad(cl.key.creator) /\ ~bad(cl.server)
GoodServerKey ==
    ~bad(sv.key.creator) /\ ~bad(shared_with(sv.key.creator, sv.key.id))

\* C1: client integrity. Whenever a client call has returned an item resp,
\* bad(creator) or bad(server) or response(creator, server, request, resp)
\* holds, where key = key_item(creator, id) and server is
\* shared_with(creator, id).
C1_ClientIntegrity ==
    cl.pc = "Done" =>
        \/ bad(cl.key.creator)
        \/ bad(cl.server)
        \/ response(cl.key.creator, cl.server, cl.request, cl.result)

\* a call between two principals that are not bad has returned a response
C1_Witness == cl.pc = "Done" /\ GoodClientCall /\ cl.result # NoItem

\* C2: server integrity. Whenever a server iteration reaches
\* compute_response(request), bad(creator) or bad(shared_with(creator, id))
\* or request(creator, shared_with(creator, id), request) holds; and every
\* response event recorded for a client and a server that are not bad is
\* for a request whose request event holds.
C2_ServerIntegrity ==
    /\ sv.pc = "Compute" => compute_response_requires(sv.key, sv.request)
    /\ \A e \in responses :
          (~bad(e[1]) /\ ~bad(e[2])) => request(e[1], e[2], e[3])

\* a server whose key is between principals that are not bad has reached
\* compute_response and has recorded a response
C2_Witness ==
    /\ sv.pc = "Compute"
    /\ GoodServerKey
    /\ \E e \in responses : ~bad(e[1]) /\ ~bad(e[2])

C4_ServerSendPublic == ~(sv.pc = "Aborted" /\ sv.err = "NotPublic")

\* a server whose key is between principals that are not bad has sent a
\* reply and is back at the head of its loop
C4_Witness ==
    /\ sv.pc = "Loop"
    /\ GoodServerKey
    /\ \E e \in responses :
          e[1] = sv.key.creator /\ mypub(server_message(sv.key, e[3], e[4]))

\* C5: mypub is closed under every attacker derivation: no attacker branch
\* passes to net_send an item that does not satisfy mypub, so the attacker
\* never fails with NotPublic.
C5_AttackerClosed == ~(att.pc = "Aborted" /\ att.err = "NotPublic")

\* the attacker has created a key, leaked it and is back in its inner loop
C5_Witness == att.pc = "Loop" /\ principal[att.me] > 0

\* C6: in a run of attacker actions only, no request or response event
\* holds for a client and a server that are not bad.
C6_NoForgedEvents ==
    /\ \A e \in requests : bad(e[1]) \/ bad(e[2])
    /\ \A e \in responses : bad(e[1]) \/ bad(e[2])

\* the attacker's persona is not bad, nor is the next principal, and the
\* attacker has gone through its inner loop
C6_Witness ==
    /\ att.pc \in {"Assume", "Aborted"}
    /\ ~bad(att.me)
    /\ ~bad(shared_with(att.me, 0))

\* the hmac items of the world, and hmacs of payloads that are not pairs
HmacItems ==
    Hashes \cup {hmacsha1_item(k.creator, k.id, a) : k \in Keys, a \in AppItems}

\* C7: soundness of mypub. For every hmacsha1_item(creator, id, m) that
\* satisfies mypub with neither creator nor shared_with(creator, id) bad,
\* m is a pair of a data item tag and s, with tag 0 and request(creator,
\* shared_with(creator, id), s), or with tag 1, s a pair of req and resp and
\* response(creator, shared_with(creator, id), req, resp).
C7_PubSound ==
    \A h \in HmacItems :
        (/\ mypub(h)
         /\ ~bad(h.keyCreator)
         /\ ~bad(shared_with(h.keyCreator, h.id)))
        => LET m == h.payload
               sw == shared_with(h.keyCreator, h.id)
           IN /\ m.tag = "pair"
              /\ m.first.tag = "data"
              /\ \/ m.first.id = 0 /\ request(h.keyCreator, sw, m.second)
                 \/ /\ m.first.id = 1
                    /\ m.second.tag = "pair"
                    /\ response(h.keyCreator, sw, m.second.first,
                                m.second.second)

\* an hmac of a request and an hmac of a response, under a key between
\* principals that are not bad, both satisfy mypub
C7_Witness ==
    \E h0 \in HmacItems, h1 \in HmacItems :
        /\ mypub(h0) /\ mypub(h1)
        /\ ~bad(h0.keyCreator) /\ ~bad(shared_with(h0.keyCreator, h0.id))
        /\ ~bad(h1.keyCreator) /\ ~bad(shared_with(h1.keyCreator, h1.id))
        /\ h0.payload.tag = "pair" /\ h0.payload.first = data_item(0)
        /\ h1.payload.tag = "pair" /\ h1.payload.first = data_item(1)

C9_PrincipalUnique ==
    [][/\ principals' >= principals
       /\ principals' # principals =>
             /\ principals' = principals + 1
             /\ principals \notin DOMAIN principal
             /\ principals \in DOMAIN principal'
             /\ principal'[principals] = 0
             /\ issuedIds' = issuedIds (+) SetToBag({principals})
       /\ issuedIds' # issuedIds => principals' # principals
       /\ \A id \in BagToSet(issuedIds') : CopiesIn(id, issuedIds') = 1]_vars

\* the attacker's persona and a principal of the application were created
C9_Witness ==
    /\ principals >= 2
    /\ att.me = 0
    /\ BagToSet(issuedIds) = 0 .. (principals - 1)

\* C10: mypub is monotonic. An item that satisfies mypub in a state
\* satisfies it in every later state.
C10_PubMonotonic ==
    [][\A i \in World : mypub(i) => mypub(i)']_vars

\* an hmac of a request is public by its request event alone, and a
\* response event has been recorded since
C10_Witness ==
    /\ responses # {}
    /\ \E h \in Hashes :
          /\ mypub(h)
          /\ ~bad(h.keyCreator) /\ ~bad(shared_with(h.keyCreator, h.id))
          /\ h.payload.first = data_item(0)
    /\ cl.pc = "Aborted"

\* C11: a correct run exists and completes. With principals 1 and 2 not
\* bad, key_item(1, 0) shared with 2 and request(1, 2, data_item(42))
\* recorded, the client's message is one net_receive may yield and the
\* server extracts data_item(42) from it; the server's reply for every
\* response it recorded is one net_receive may yield and the client
\* extracts that response from it; a server at compute_response holds
\* data_item(42); and a client that has returned holds a response resp with
\* response(1, 2, data_item(42), resp) and no error.
C11_CorrectRun ==
    /\ request(1, 2, ScenarioRequest) =>
          /\ client_message(ScenarioKey, ScenarioRequest) \in net_receive(World)
          /\ server_request(ScenarioKey,
                            client_message(ScenarioKey, ScenarioRequest))
                = ScenarioRequest
    /\ \A e \in responses :
          LET m == server_message(ScenarioKey, e[3], e[4]) IN
          /\ e[1] = 1 /\ e[2] = 2 /\ e[3] = ScenarioRequest
          /\ m \in net_receive(World)
          /\ client_response(ScenarioKey, ScenarioRequest, m) = e[4]
    /\ sv.pc = "Compute" => sv.request = ScenarioRequest
    /\ cl.pc = "Done" =>
          /\ cl.err = ""
          /\ response(1, 2, ScenarioRequest, cl.result)

\* the client has sent, the server has received, replied and is back at the
\* head of its loop, and the client has returned the response recorded for
\* its request; neither role has aborted
C11_Witness ==
    /\ shared_with(1, 0) = 2 /\ ~bad(1) /\ ~bad(2)
    /\ cl.pc = "Done" /\ cl.err = ""
    /\ cl.key = ScenarioKey /\ cl.server = 2 /\ cl.request = ScenarioRequest
    /\ response(1, 2, ScenarioRequest, cl.result)
    /\ sv.pc = "Loop" /\ sv.err = "" /\ sv.key = ScenarioKey

\* the reply r is not pair_item(hmacsha1_item(creator, id, p), p) with
\* p = pair_item(data_item(1), pair_item(req, resp)) for the client's key
\* key_item(creator, id) and request req
C12_Defect(key, req, r) ==
    IF r.tag # "pair" THEN TRUE
    ELSE IF r.first # hmacsha1_item(key.creator, key.id, r.second) THEN TRUE
    ELSE IF r.second.tag # "pair" THEN TRUE
    ELSE IF r.second.first.tag # "data" THEN TRUE
    ELSE IF r.second.first.id # 1 THEN TRUE
    ELSE IF r.second.second.tag # "pair" THEN TRUE
    ELSE r.second.second.first # req

\* C12: client fail-fast. A client call that receives a reply that is not
\* a pair, whose first component is not the hmac of its second under the
\* client's key, whose payload is not a pair, whose tag is not a data item
\* or not 1 (the client's own request message reflected included), whose
\* body is not a pair or whose echoed request is not the request, ends
\* Aborted with no response; a call that returns a response has received a
\* reply with none of these defects and returns its response component.
C12_ClientFailFast ==
    [][/\ cl.pc = "AwaitingResponse" =>
             /\ \A r \in World :
                    C12_Defect(cl.key, cl.request, r) =>
                        client_response(cl.key, cl.request, r) = Abort
             /\ C12_Defect(cl.key, cl.request,
                           client_message(cl.key, cl.request))
             /\ cl'.pc \in {"AwaitingResponse", "Done", "Aborted"}
             /\ cl'.pc = "Done" =>
                    \E r \in net_receive(World) :
                        /\ ~C12_Defect(cl.key, cl.request, r)
                        /\ cl'.result = r.second.second.second
             /\ cl'.pc = "Aborted" =>
                    /\ cl'.result = NoItem
                    /\ \E r \in net_receive(World) :
                           C12_Defect(cl.key, cl.request, r)
       /\ cl.pc = "Aborted" =>
             cl'.result = NoItem /\ cl'.pc \in {"Aborted", "Idle"}]_vars

\* a call between principals that are not bad has aborted on its reply
\* while its own request message, reflected, was one net_receive may yield
C12_Witness ==
    /\ cl.pc = "Aborted" /\ cl.err = "Abort" /\ cl.result = NoItem
    /\ GoodClientCall
    /\ client_message(cl.key, cl.request) \in net_receive(World)

\* the message r is not pair_item(hmacsha1_item(creator, id, p), p) with
\* p = pair_item(data_item(0), req) for the server's key
C13_Defect(key, r) ==
    IF r.tag # "pair" THEN TRUE
    ELSE IF r.first # hmacsha1_item(key.creator, key.id, r.second) THEN TRUE
    ELSE IF r.second.tag # "pair" THEN TRUE
    ELSE IF r.second.first.tag # "data" THEN TRUE
    ELSE r.second.first.id # 0

\* C13: server errors are fatal. An iteration that receives a message that
\* is not a pair, whose hmac does not verify under the server's key, whose
\* payload is not a pair or whose tag is not the data item 0 stops the
\* server without a compute_response call or a send; a stopped server takes
\* no further step and records no further response; the server stops in no
\* other way and never returns.
C13_ServerErrorsFatal ==
    [][/\ sv.pc = "Loop" =>
             /\ \A r \in World :
                    C13_Defect(sv.key, r) => server_request(sv.key, r) = Abort
             /\ sv' # sv => sv'.pc \in {"Compute", "Aborted"}
             /\ responses' = responses
             /\ sv'.pc = "Compute" =>
                    \E r \in net_receive(World) :
                        ~C13_Defect(sv.key, r) /\ sv'.request = r.second.second
             /\ sv'.pc = "Aborted" =>
                    /\ sv'.request = NoItem
                    /\ \E r \in net_receive(World) : C13_Defect(sv.key, r)
       /\ sv.pc = "Aborted" => sv' = sv /\ responses' = responses
       /\ sv'.pc = "Aborted" =>
             sv.pc \in {"Loop", "Aborted"} /\ sv'.err = "Abort"
       /\ sv.pc # "Idle" => sv'.pc # "Idle"]_vars

\* a server whose key is between principals that are not bad has replied
\* in one iteration and has stopped in a later one
C13_Witness ==
    /\ sv.pc = "Aborted" /\ sv.err = "Abort"
    /\ GoodServerKey
    /\ \E e \in responses : e[1] = sv.key.creator

\* every step the server can take in the state before is one it can take
\* in the state after; likewise the client and the attacker
C14_ServerStepsKept ==
    /\ \A serverId \in Partners, key \in Keys :
          ENABLED ServerStart(serverId, key)
              => (ENABLED ServerStart(serverId, key))'
    /\ ENABLED ServerReceive => (ENABLED ServerReceive)'
    /\ ENABLED ServerRespond => (ENABLED ServerRespond)'

C14_ClientStepsKept ==
    /\ \A key \in Keys, req \in AppItems :
          /\ ENABLED RecordRequest(key, req)
                => (ENABLED RecordRequest(key, req))'
          /\ ENABLED ClientSend(key, req) => (ENABLED ClientSend(key, req))'
    /\ ENABLED ClientAwait => (ENABLED ClientAwait)'
    /\ ENABLED ClientReceive => (ENABLED ClientReceive)'
    /\ ENABLED ClientReturn => (ENABLED ClientReturn)'

C14_AttackerStepsKept ==
    /\ ENABLED AttackerStart => (ENABLED AttackerStart)'
    /\ ENABLED AttackerCreateKey => (ENABLED AttackerCreateKey)'
    /\ ENABLED AttackerLeakKey => (ENABLED AttackerLeakKey)'
    /\ ENABLED AttackerData => (ENABLED AttackerData)'
    /\ ENABLED AttackerPair => (ENABLED AttackerPair)'
    /\ ENABLED AttackerHash => (ENABLED AttackerHash)'
    /\ ENABLED AttackerSplit => (ENABLED AttackerSplit)'

\* mypub, the registry and the key counts are as they were
C14_WorldKept ==
    /\ \A i \in World : mypub(i)' = mypub(i)
    /\ UNCHANGED <<badPrincipals, sharedWith, requests, responses,
                   principals, principal, issuedIds, issuedKeys>>

\* C14: abort locality. The step in which the client, the server or the
\* attacker aborts leaves the other roles as they were, able to take every
\* step they could take before, leaves mypub of every item as it was, and
\* leaves the principals and their key counts as they were.
C14_AbortLocal ==
    [][/\ (cl.pc # "Aborted" /\ cl'.pc = "Aborted") =>
             /\ UNCHANGED <<sv, att>>
             /\ C14_WorldKept
             /\ C14_ServerStepsKept /\ C14_AttackerStepsKept
       /\ (sv.pc # "Aborted" /\ sv'.pc = "Aborted") =>
             /\ UNCHANGED <<cl, att>>
             /\ C14_WorldKept
             /\ C14_ClientStepsKept /\ C14_AttackerStepsKept
       /\ (att.pc # "Aborted" /\ att'.pc = "Aborted") =>
             /\ UNCHANGED <<cl, sv>>
             /\ C14_WorldKept
             /\ C14_ClientStepsKept /\ C14_ServerStepsKept]_vars

\* the client has aborted while the server is at compute_response and the
\* attacker is in its inner loop, and both can still step
C14_Witness ==
    /\ cl.pc = "Aborted"
    /\ sv.pc = "Compute" /\ ENABLED ServerRespond
    /\ att.pc = "Loop" /\ ENABLED AttackerSplit

\* C15: hmacsha1_verify(hash, key, payload) with key = key_item(c, k)
\* returns if and only if hash is an hmac item with key creator c, id k and
\* payload payload; it does not return for the hmac of another creator, of
\* another id or of another payload, nor for an item that is not an hmac;
\* when it returns, hash, key and payload are the items they were. The
\* hmac that hmacsha1 makes under a key verifies under that key and that
\* payload and under no other.
C15_VerifyIff ==
    /\ call.op = "hmacsha1_verify" =>
          LET hash == call.args[1]
              key == call.args[2]
              payload == call.args[3]
          IN /\ (call.result = "ok") <=>
                    (/\ hash.tag = "hmac"
                     /\ hash.keyCreator = key.creator
                     /\ hash.id = key.id
                     /\ hash.payload = payload)
             /\ call.result \in {"ok", "abort"}
             /\ call.result = "ok" => call.after = call.args
    /\ call.op = "hmacsha1" =>
          \A key \in LibKeys, payload \in LibPayloads :
              hmacsha1_verify(call.result, key, payload)
                  <=> (key = call.args[1] /\ payload = call.args[2])

\* hmacsha1_verify has not returned for an hmac of the payload under the
\* key of the same creator with another id
C15_Witness ==
    /\ call.op = "hmacsha1_verify" /\ call.result = "abort"
    /\ call.args[1].tag = "hmac"
    /\ call.args[1].keyCreator = call.args[2].creator
    /\ call.args[1].payload = call.args[3]
    /\ call.args[1].id # call.args[2].id

\* C16: term round trip. pair_get_first and pair_get_second of
\* create_pair(a, b) are a and b; item_get_data of create_data_item(v) is
\* v; check_is_key returns for every key create_key has returned;
\* pair_get_first and pair_get_second return the components of a pair item
\* and abort on a key, a data item or an hmac; item_get_data returns the
\* value of a data item and aborts on a key, an hmac or a pair;
\* check_is_key returns on a key and aborts on a data item, an hmac or a
\* pair; a call that aborts returns nothing.
C16_TermRoundTrip ==
    LET i == call.args[1] IN
    /\ call.op = "create_pair" =>
          /\ pair_get_first(call.result) = call.args[1]
          /\ pair_get_second(call.result) = call.args[2]
    /\ call.op = "create_data_item" =>
          /\ call.result.tag = "data"
          /\ item_get_data(call.result) = call.args[1]
    /\ \A k \in BagToSet(issuedKeys) : check_is_key(k) = k
    /\ call.op = "pair_get_first" =>
          IF i.tag = "pair" THEN call.result = i.first
          ELSE i.tag \in {"key", "data", "hmac"} /\ call.result = Abort
    /\ call.op = "pair_get_second" =>
          IF i.tag = "pair" THEN call.result = i.second
          ELSE i.tag \in {"key", "data", "hmac"} /\ call.result = Abort
    /\ call.op = "item_get_data" =>
          IF i.tag = "data" THEN call.result = i.id
          ELSE i.tag \in {"key", "hmac", "pair"} /\ call.result = Abort
    /\ call.op = "check_is_key" =>
          /\ i \in BagToSet(issuedKeys) => call.result = "ok"
          /\ IF i.tag = "key" THEN call.result = "ok"
             ELSE i.tag \in {"data", "hmac", "pair"} /\ call.result = "abort"

\* pair_get_second has returned the second component of a pair whose
\* components differ, after create_key has returned a key
C16_Witness ==
    /\ call.op = "pair_get_second"
    /\ call.args[1].tag = "pair"
    /\ call.args[1].first # call.args[1].second
    /\ call.result = call.args[1].second
    /\ issuedKeys # EmptyBag

\* m is pair_item(hmac, pair_item(data_item(tag), body)) with tag 0 or 1,
\* the hmac that of the second component, and body a pair when tag is 1
C17_WireFormat(m) ==
    /\ m.tag = "pair"
    /\ m.first.tag = "hmac"
    /\ m.second.tag = "pair"
    /\ m.first.payload = m.second
    /\ m.second.first.tag = "data"
    /\ m.second.first.id \in {0, 1}
    /\ m.second.first.id = 1 => m.second.second.tag = "pair"

\* the send of the client: tag 0 and the request as the body
C17_ClientSends ==
    (cl.pc = "Idle" /\ cl'.pc = "Sent") =>
        LET m == client_message(cl'.key, cl'.request) IN
        /\ C17_WireFormat(m)
        /\ m.first.keyCreator = cl'.key.creator /\ m.first.id = cl'.key.id
        /\ m.second.first.id = 0
        /\ m.second.second = cl'.request

\* the send of the server: tag 1 and the pair of the request it received
\* and the response compute_response returned as the body
C17_ServerSends ==
    (sv.pc = "Compute" /\ sv'.pc = "Loop") =>
        \E resp \in compute_response_results :
            LET m == server_message(sv.key, sv.request, resp) IN
            /\ <<sv.key.creator, shared_with(sv.key.creator, sv.key.id),
                 sv.request, resp>> \in responses'
            /\ C17_WireFormat(m)
            /\ m.first.keyCreator = sv.key.creator /\ m.first.id = sv.key.id
            /\ m.second.first.id = 1
            /\ m.second.second = pair_item(sv.request, resp)

\* the send of the attacker in case 0: the key it created
C17_AttackerSends ==
    (att.pc = "Assume" /\ att'.pc = "Loop") => C17_WireFormat(att.item)

\* C17 as stated: every item passed to net_send, by the client, the
\* server or the attacker, has the wire format.
C17_WireFormatAll ==
    [][C17_ClientSends /\ C17_ServerSends /\ C17_AttackerSends]_vars

\* C17, amended: every item the client or the server passes to net_send is
\* pair_item(hmac, pair_item(tag, body)) with the hmac under the role's key
\* of the second component; the client's has tag 0 and the request as the
\* body, the server's has tag 1 and the pair of the request received and
\* the response as the body.
C17_WireFormatRoles ==
    [][C17_ClientSends /\ C17_ServerSends]_vars

\* the client has sent its request message and the server has sent a reply
\* to that request, both under a key between principals that are not bad
C17_Witness ==
    /\ cl.pc = "Sent" /\ GoodClientCall
    /\ sv.pc = "Loop" /\ sv.key = cl.key
    /\ \E e \in responses :
          /\ e[3] = cl.request
          /\ C17_WireFormat(server_message(sv.key, e[3], e[4]))
    /\ C17_WireFormat(client_message(cl.key, cl.request))

\* C18: one round trip per client call. A call moves from Idle to Sent by
\* its one send, from Sent to AwaitingResponse, and from AwaitingResponse
\* by its one receive to Done, with a response, or to Aborted, with none;
\* the send is taken only from Idle and the receive only from
\* AwaitingResponse; from Done and Aborted the call only ends, with no
\* send and no receive.
C18_OneRoundTrip ==
    [][/\ cl.pc = "Idle" => cl'.pc \in {"Idle", "Sent"}
       /\ cl.pc = "Sent" =>
             /\ cl'.pc \in {"Sent", "AwaitingResponse"}
             /\ cl'.key = cl.key /\ cl'.request = cl.request
       /\ cl.pc = "AwaitingResponse" =>
             /\ cl' # cl => cl'.pc \in {"Done", "Aborted"}
             /\ cl'.key = cl.key /\ cl'.request = cl.request
             /\ (cl'.pc = "Done") <=> (cl'.result # NoItem)
       /\ cl.pc \in {"Done", "Aborted"} =>
             /\ cl'.pc \in {cl.pc, "Idle"}
             /\ cl'.pc = cl.pc => cl' = cl
             /\ cl'.pc = "Idle" => ClientReturn
       /\ (\E key \in Keys, req \in AppItems : ClientSend(key, req))
             => cl.pc = "Idle" /\ cl'.pc # "Idle"
       /\ ClientReceive => cl.pc = "AwaitingResponse"
       /\ cl'.pc = "Sent" /\ cl.pc # "Sent" =>
             \E key \in Keys, req \in AppItems : ClientSend(key, req)
       /\ cl'.pc \in {"Done", "Aborted"} /\ cl.pc # cl'.pc =>
             ClientReceive]_vars

\* a call has gone through its send and its receive and holds the
\* response to data_item(42)
C18_Witness ==
    /\ cl.pc = "Done" /\ cl.err = ""
    /\ cl.request = ScenarioRequest
    /\ cl.result \in AppItems

\* the requests of the request messages under the server's key that
\* net_receive may yield
C19_Receivable ==
    {server_request(sv.key, m) : m \in net_receive(World)} \ {Abort}

\* C19: replay and injection are permitted. At the head of every
\* iteration the server can receive and accept every request message
\* under its key that satisfies mypub, whether the client has sent it or
\* not and whether the server has answered it before or not, and goes on
\* to compute_response with its request; a server at compute_response
\* with a request it has answered before can reply again; no send of the
\* client or of the attacker changes mypub of any item, nor does a reply
\* of the server whose response event held before.
C19_ReplayPermitted ==
    /\ sv.pc = "Loop" =>
          \A req \in C19_Receivable :
              ENABLED (/\ ServerReceive
                       /\ sv'.pc = "Compute"
                       /\ sv'.request = req)
    /\ (/\ sv.pc = "Compute"
        /\ \E e \in responses :
               e[1] = sv.key.creator /\ e[3] = sv.request) =>
          ENABLED (ServerRespond /\ sv'.pc = "Loop")
    /\ ~ENABLED (/\ \E key \in Keys, req \in AppItems : ClientSend(key, req)
                 /\ \E i \in World : mypub(i)' # mypub(i))
    /\ ~ENABLED (/\ AttackerLeakKey
                 /\ \E i \in World : mypub(i)' # mypub(i))
    /\ ~ENABLED (/\ ServerRespond
                 /\ responses' = responses
                 /\ \E i \in World : mypub(i)' # mypub(i))

\* the server, whose key is between principals that are not bad, has
\* answered a request and is at compute_response with the same request in
\* a later iteration, while no client call is in progress
C19_Witness ==
    /\ sv.pc = "Compute" /\ GoodServerKey
    /\ \E e \in responses : e[1] = sv.key.creator /\ e[3] = sv.request
    /\ cl.pc = "Idle"

\* C20: the attacker's key leak is conditional on badness. In case 0 the
\* attacker, whatever bad says, creates key_item(me, n), n its key count,
\* which becomes n + 1; it passes the key to net_send only if bad(me) or
\* bad(shared_with(me, n)); with neither, it goes no further and the key
\* is not sent.
C20_LeakConditional ==
    [][/\ (att.pc = "Loop" /\ principal[att.me] < MaxKeys) =>
             ENABLED AttackerCreateKey
       /\ (att.pc = "Loop" /\ att'.pc = "Assume") =>
             /\ att'.item = key_item(att.me, principal[att.me])
             /\ principal'[att.me] = principal[att.me] + 1
             /\ CopiesIn(att'.item, issuedKeys) = 0
             /\ CopiesIn(att'.item, issuedKeys') = 1
       /\ att.pc = "Assume" =>
             /\ att.item.tag = "key" /\ att.item.creator = att.me
             /\ att' # att =>
                    /\ att'.pc = "Loop"
                    /\ \/ bad(att.item.creator)
                       \/ bad(shared_with(att.item.creator, att.item.id))
                    /\ mypub(att.item)
             /\ (/\ ~bad(att.item.creator)
                 /\ ~bad(shared_with(att.item.creator, att.item.id))) =>
                    ~ENABLED AttackerLeakKey]_vars

\* the attacker has created a key, neither it nor the principal the key
\* is shared with is bad, and the key is not one net_send accepts
C20_Witness ==
    /\ att.pc = "Assume"
    /\ att.item = key_item(att.me, principal[att.me] - 1)
    /\ ~bad(att.me) /\ ~bad(shared_with(att.me, att.item.id))
    /\ ~mypub(att.item)

\* C21: the server never uses serverId. Whatever serverId the server was
\* started with, each of its steps is given by its key and by what it
\* receives and what compute_response returns: it accepts every request
\* message under its key that net_receive may yield and aborts on every
\* other item, it replies to the request it accepted, the response event
\* is for shared_with(creator, id) and not for serverId, and serverId and
\* the key stay as they were. Two servers with the same key that receive
\* the same items and get the same responses take the same steps.
C21_ServerIdUnused ==
    [][/\ sv.pc # "Idle" =>
             sv'.serverId = sv.serverId /\ sv'.key = sv.key
       /\ sv.pc = "Loop" =>
             /\ \A req \in {server_request(sv.key, r) :
                                r \in net_receive(World)} :
                    ENABLED (/\ ServerReceive
                             /\ IF req = Abort
                                THEN sv'.pc = "Aborted"
                                ELSE sv'.pc = "Compute" /\ sv'.request = req)
             /\ sv' # sv =>
                    \E r \in net_receive(World) :
                        LET req == server_request(sv.key, r) IN
                        IF req = Abort
                        THEN sv'.pc = "Aborted" /\ sv'.request = NoItem
                        ELSE sv'.pc = "Compute" /\ sv'.request = req
       /\ (sv.pc = "Compute" /\ sv' # sv) =>
             /\ sv'.pc = "Loop"
             /\ \E resp \in compute_response_results :
                    /\ <<sv.key.creator,
                         shared_with(sv.key.creator, sv.key.id),
                         sv.request, resp>> \in responses'
                    /\ \E m \in {server_message(sv.key, sv.request, resp)} :
                           mypub(m)']_vars

\* a server started with a serverId that is not shared_with of its key has
\* accepted a request, replied and is at the head of its loop
C21_Witness ==
    /\ sv.pc = "Loop"
    /\ sv.serverId # shared_with(sv.key.creator, sv.key.id)
    /\ \E e \in responses : e[1] = sv.key.creator

\* the item and the items reached from it through the components of pairs
RECURSIVE PairParts(_)
PairParts(i) ==
    IF i.tag = "pair"
    THEN {i} \cup PairParts(i.first) \cup PairParts(i.second)
    ELSE {i}

\* a key whose creator and sharing partner are not bad
C22_GoodKey(i) ==
    /\ i.tag = "key"
    /\ ~bad(i.creator)
    /\ ~bad(shared_with(i.creator, i.id))

\* the messages the client and the server have passed to net_send
C22_ClientSent ==
    IF cl.pc = "Sent" THEN {client_message(cl.key, cl.request)} ELSE {}

C22_ServerSent ==
    IF sv.pc \in {"Loop", "Compute"}
    THEN {server_message(sv.key, e[3], e[4]) :
             e \in {x \in responses : x[1] = sv.key.creator}}
    ELSE {}

\* C22, amended: good keys stay off the wire. No item that net_receive may
\* yield or that net_send accepts is, or holds through the components of
\* pairs, a key whose creator and sharing partner are both not bad; the
\* messages of the client and the server hold no such key, so they do not
\* hold the role's key while it is good; the attacker can send the key it
\* created only if it is not good. (A key that is not good can be the
\* request or the response the application supplies, and the role's
\* message then holds the role's own key.)
C22_GoodKeysOffWire ==
    /\ \A i \in net_receive(World) :
          \A c \in PairParts(i) : ~C22_GoodKey(c)
    /\ \A m \in C22_ClientSent \cup C22_ServerSent :
          /\ net_send(m)
          /\ \A c \in PairParts(m) : ~C22_GoodKey(c)
    /\ \A m \in C22_ClientSent :
          C22_GoodKey(cl.key) => cl.key \notin PairParts(m)
    /\ \A m \in C22_ServerSent :
          C22_GoodKey(sv.key) => sv.key \notin PairParts(m)
    /\ (att.pc = "Assume" /\ ENABLED AttackerLeakKey) =>
          ~C22_GoodKey(att.item)

\* C22 as stated: good keys stay off the wire, and the client and the
\* server never send their key, good or not.
C22_KeysNeverSent ==
    /\ \A i \in net_receive(World) :
          \A c \in PairParts(i) : ~C22_GoodKey(c)
    /\ \A m \in C22_ClientSent : cl.key \notin PairParts(m)
    /\ \A m \in C22_ServerSent : sv.key \notin PairParts(m)

\* the client, with a key between principals that are not bad, has sent
\* its message while an item holding another key in a pair is one that
\* net_receive may yield
C22_Witness ==
    /\ cl.pc = "Sent" /\ C22_GoodKey(cl.key)
    /\ \E i \in net_receive(World) :
          \E c \in PairParts(i) : c.tag = "key" /\ c # i

\* C23: everything handed to the application is public. The response a
\* client call returns satisfies mypub, and so does the request the server
\* passes to compute_response; each is reached through the components of
\* pairs from an item that net_receive may yield.
C23_HandedItemsPublic ==
    /\ cl.pc = "Done" =>
          /\ mypub(cl.result)
          /\ \E r \in net_receive(World) :
                /\ cl.result \in PairParts(r)
                /\ client_response(cl.key, cl.request, r) = cl.result
    /\ sv.pc = "Compute" =>
          /\ mypub(sv.request)
          /\ \E r \in net_receive(World) :
                /\ sv.request \in PairParts(r)
                /\ server_request(sv.key, r) = sv.request

\* a client call has returned a key as the response while the server is at
\* compute_response with a request
C23_Witness ==
    /\ cl.pc = "Done" /\ cl.result.tag = "key"
    /\ sv.pc = "Compute" /\ sv.request \in AppItems

\* C24: the attacker's inner loop never exits normally. The body of the
\* outer loop runs once: the attacker creates one persona, taking the
\* registry count from 0 to 1, and keeps it; the persona's principal and
\* its key count are never given up; from its inner loop the attacker goes
\* on looping, and it stops only by the abort of check_is_key in case 3 on
\* an item that is not a key or of pair_get_first in case 4 on an item that
\* is not a pair; once stopped it takes no step.
C24_InnerLoopForever ==
    [][/\ att' # att /\ principals' # principals =>
             /\ att.pc = "Init" /\ principals = 0 /\ principals' = 1
             /\ att'.me = 0 /\ att'.pc = "Loop"
       /\ att.pc # "Init" =>
             /\ att'.pc # "Init"
             /\ att'.me = att.me
             /\ att.me \in DOMAIN principal'
             /\ principal'[att.me] >= principal[att.me]
       /\ att.pc = "Loop" =>
             /\ att'.pc \in {"Loop", "Assume", "Aborted"}
             /\ ENABLED AttackerData /\ ENABLED AttackerPair
       /\ att.pc = "Assume" => att'.pc \in {"Assume", "Loop"}
       /\ att.pc = "Aborted" => att' = att
       /\ (att.pc # "Aborted" /\ att'.pc = "Aborted") =>
             /\ att.pc = "Loop" /\ att'.err = "Abort"
             /\ AttackerHash \/ AttackerSplit
             /\ \/ \E key \in net_receive(Atoms) : key.tag # "key"
                \/ \E pair \in net_receive(World) : pair.tag # "pair"]_vars

\* the attacker, with its one persona, has created a key and has then
\* stopped in a type check
C24_Witness ==
    /\ att.pc = "Aborted" /\ att.err = "Abort"
    /\ att.me = 0 /\ principal[0] > 0

\* C25: no freshness. With a good key, after compute_response has run once
\* for the request (the server is never again at compute_response once a
\* response event exists, and there is one event), a later call of client
\* with the same key and the same request can reach Done with no further
\* server step, and when it does it returns the item the earlier call
\* returned: the returned item answers to the recorded response event, not
\* to a server run of its own.
C25_NoFreshness ==
    /\ Cardinality(responses) <= 1
    /\ sv.pc = "Compute" => responses = {}
    /\ "previous" \in DOMAIN cl =>
          /\ response(ScenarioKey.creator, cl.server, ScenarioRequest,
                      cl.previous)
          /\ cl.pc \in {"Sent", "AwaitingResponse", "Done"} =>
                cl.key = ScenarioKey /\ cl.request = ScenarioRequest
          /\ cl.pc = "AwaitingResponse" =>
                ENABLED (/\ ClientReceive
                         /\ cl'.pc = "Done"
                         /\ cl'.result = cl.previous)
          /\ cl.pc = "Done" => cl.result = cl.previous

\* a second call of client has returned what the first returned, the
\* server having computed one response
C25_Witness ==
    /\ "previous" \in DOMAIN cl
    /\ cl.pc = "Done" /\ cl.result = cl.previous
    /\ Cardinality(responses) = 1
    /\ sv.pc = "Loop"

=============================================================================
